---- MODULE Spec2Model ----
(***************************************************************************)
(* State directory subsystem of tor-persist (state_dir.rs):                *)
(* per-instance exclusively locked directories, record storage and purge.  *)
(*                                                                         *)
(* The filesystem below STATE_DIR/KIND is modelled explicitly: which lock  *)
(* files exist, which instance directories exist, and the content of each  *)
(* record file and temporary file.  A LockFileGuard is an object owned by  *)
(* one process that holds the OS lock on one lock file; the Arc around it  *)
(* is shared by the InstanceStateHandle, the StorageHandles and the        *)
(* InstanceRawSubdir made from it.  Each process runs one operation at a   *)
(* time; operations that touch the filesystem more than once are split     *)
(* into one step per filesystem call, and a process may crash between any  *)
(* two steps.  The OS lock belongs to the open file of a guard, so a second *)
(* lock attempt conflicts in the same way from the same or another process. *)
(***************************************************************************)
EXTENDS Naturals, Sequences, FiniteSets, TLC

\* ------------------------------------------------------------------ bounds

\* Number of LockFileGuard objects that can be alive at once.
MaxGuards == 2

\* Number of tokens one write() call of store puts into the temporary file.
WriteChunk == 2

\* ------------------------------------------------------------ small domains

Procs == {"p1", "p2"}

\* InstanceIdentity::kind() of the test's Garlic type.
Kind == <<"g", "a", "r", "l", "i", "c">>

\* Identity strings written by write_identity: two valid ones, and two that
\* are not slugs (empty, bad first character).
Wild == <<"w", "i", "l", "d">>
Leek == <<"l", "e", "e", "k">>
EmptyStr == << >>
DashId == <<"-", "x">>

Ids == {Wild, Leek}
IdStrings == Ids \cup {EmptyStr, DashId}

\* Strings returned by InstanceIdentity::kind() of a faulty implementation.
BadKinds == {EmptyStr, DashId}

\* Slugs given to storage_handle / raw_subdir / instance_peek_storage.
stored_data == <<"s", "t", "o", "r", "e", "d", "_", "d", "a", "t", "a">>
raw == <<"r", "a", "w">>
BadSlugStr == <<"S">>

Slugs == {stored_data}
SlugStrings == Slugs \cup {BadSlugStr}

\* Values of StoredData.some_value that are stored (as their decimal text).
Values == {"42", "7"}

GuardIds == 1 .. MaxGuards

\* Identity strings for the lock file paths: "a" followed by up to two
\* characters, each a letter, "_", "-" or ".".
PathChars == {"a", "_", "-", "."}
PathTails == {<< >>} \cup {<<c>> : c \in PathChars} \cup {<<c, d>> : c, d \in PathChars}
PathIds == {<<"a">> \o t : t \in PathTails}

\* --------------------------------------------------------------- slug syntax

LowerChars ==
    {"a", "b", "c", "d", "e", "f", "g", "h", "i", "j", "k", "l", "m",
     "n", "o", "p", "q", "r", "s", "t", "u", "v", "w", "x", "y", "z"}
DigitChars == {"0", "1", "2", "3", "4", "5", "6", "7", "8", "9"}
PunctChars == {"_", "-"}

\* Slug validation: non-empty, first character alphanumeric, all characters
\* in the permitted set.
ValidSlug(s) ==
    /\ Len(s) > 0
    /\ s[1] \in LowerChars \cup DigitChars
    /\ \A k \in 1 .. Len(s) : s[k] \in LowerChars \cup DigitChars \cup PunctChars

\* ------------------------------------------------------------------- paths

DotLock == <<".", "l", "o", "c", "k">>

\* kind_dir.join(format!("{id}.lock")): leaf name of the lock file in KIND/.
lock_path_no_dot(id) == id \o <<"l", "o", "c", "k">>
lock_path(id) == id \o DotLock

\* Position of the last "." of a leaf name after its first character, or 0.
LastDot(name) ==
    LET ds == {k \in 2 .. Len(name) : name[k] = "."}
    IN  IF ds = {} THEN 0 ELSE CHOOSE k \in ds : \A j \in ds : j <= k

\* Path::with_extension("lock") applied to the leaf name of the instance dir.
with_extension_lock(name) ==
    IF LastDot(name) = 0 THEN name \o DotLock
    ELSE SubSeq(name, 1, LastDot(name) - 1) \o DotLock

\* The path purge hands to delete_lock_file.
purge_lock_path_wrong(id) == lock_path(IF id = Wild THEN Leek ELSE Wild)
purge_lock_path(id) == with_extension_lock(id)

\* ------------------------------------------------------------ record codec

\* A file: absent, or present with its content (a sequence of tokens).
NoFile == [exists |-> FALSE, data |-> << >>]
FileOf(d) == [exists |-> TRUE, data |-> d]

\* serde_json text of StoredData { some_value: v }, as tokens.
Serialize_unterminated(v) == <<"{", "some_value", v>>
Serialize(v) == <<"{", "some_value", v, "}">>

\* Parse the text of a record file; fails on anything but a complete record.
Deserialize(d) ==
    IF Len(d) = 4 /\ d[1] = "{" /\ d[2] = "some_value" /\ d[4] = "}"
    THEN [ok |-> TRUE, val |-> d[3]]
    ELSE [ok |-> FALSE, val |-> ""]

\* load_store::Target::load on a file: None when absent, else the parsed value.
TargetLoad(f) ==
    IF ~f.exists THEN [out |-> "None", val |-> ""]
    ELSE IF Deserialize(f.data).ok
         THEN [out |-> "Some", val |-> Deserialize(f.data).val]
         ELSE [out |-> "SerdeError", val |-> ""]

\* ------------------------------------------------------------------- state

VARIABLES
    kindDir,    \* STATE_DIR/KIND exists
    lockFiles,  \* leaf names of the lock files that exist in STATE_DIR/KIND
    instDir,    \* instDir[i]: STATE_DIR/KIND/i exists
    rawDir,     \* rawDir[i]: STATE_DIR/KIND/i/raw exists
    recFile,    \* recFile[i][s]: the file STATE_DIR/KIND/i/s.json
    tmpFile,    \* tmpFile[i][s]: the temporary file used by store
    guards,     \* guards[g]: a LockFileGuard and the holders of its Arc
    pc,         \* pc[p]: the step process p is at, with the operation's locals
    res,        \* what the step just taken returned to its caller (NoRes: nothing)
    stored      \* stored[i][s]: history: the last store/delete that took effect

vars == <<kindDir, lockFiles, instDir, rawDir, recFile, tmpFile, guards, pc, res, stored>>
fsvars == <<kindDir, lockFiles, instDir, rawDir, recFile, tmpFile>>

NoGuard ==
    [live |-> FALSE, proc |-> "none", id |-> << >>, path |-> << >>,
     linked |-> FALSE, ih |-> FALSE, sh |-> {}, rsd |-> FALSE, local |-> FALSE]

Idle == [at |-> "idle", g |-> 0, id |-> << >>, slug |-> << >>, val |-> ""]
NoRes ==
    [proc |-> "none", op |-> "none", out |-> "none", id |-> << >>, slug |-> << >>,
     val |-> ""]
Res(p, op, out, id) ==
    [proc |-> p, op |-> op, out |-> out, id |-> id, slug |-> << >>, val |-> ""]
ResRec(p, op, out, id, slug, val) ==
    [proc |-> p, op |-> op, out |-> out, id |-> id, slug |-> slug, val |-> val]

Init ==
    /\ kindDir = FALSE
    /\ lockFiles = {}
    /\ instDir = [i \in Ids |-> FALSE]
    /\ rawDir = [i \in Ids |-> FALSE]
    /\ recFile = [i \in Ids |-> [s \in Slugs |-> NoFile]]
    /\ tmpFile = [i \in Ids |-> [s \in Slugs |-> NoFile]]
    /\ guards = [g \in GuardIds |-> NoGuard]
    /\ pc = [p \in Procs |-> Idle]
    /\ res = NoRes
    /\ stored = [i \in Ids |-> [s \in Slugs |-> "None"]]

\* ------------------------------------------------------------ lock and Arc

\* Arc::strong_count of the guard's Arc: one per InstanceStateHandle,
\* StorageHandle and InstanceRawSubdir.
StrongCount_handle_only(r) == IF r.ih THEN 1 ELSE 0
StrongCount(r) ==
    (IF r.ih THEN 1 ELSE 0) + Cardinality(r.sh) + (IF r.rsd THEN 1 ELSE 0)

\* A guard stays alive while some Arc holder exists or an operation in
\* progress holds it as a local; otherwise it is dropped, releasing the lock.
AfterDropKeepsLock(r) == r
AfterDrop(r) == IF StrongCount(r) = 0 /\ ~r.local THEN NoGuard ELSE r

\* The OS lock on the file currently named `path` is held by some guard.
FileLocked(path) ==
    \E g \in GuardIds :
        guards[g].live /\ guards[g].linked /\ guards[g].path = path

\* LockFileGuard::try_lock(path): opens (creating if absent) the file and tries
\* a non-blocking exclusive lock: "Some" when obtained, "None" when held.
try_lock_sees_file(path) == IF path \in lockFiles THEN "None" ELSE "Some"
try_lock(path) == IF FileLocked(path) THEN "None" ELSE "Some"

FreeGuards == {g \in GuardIds : ~guards[g].live}
NewGuardId == CHOOSE g \in FreeGuards : \A h \in FreeGuards : g <= h

\* The model has room for the guard a call of acquire_instance may create:
\* every call that has not made its lock attempt yet has one set aside.
GuardAvailable ==
    Cardinality(FreeGuards) > Cardinality({q \in Procs : pc[q].at = "acquire_try_lock"})

\* The match on try_lock's result in acquire_instance: only Ok(Some(guard))
\* goes on; Ok(None) returns AlreadyLocked.
lock_obtained_ignoring_result(r) == TRUE
lock_obtained(r) == r = "Some"

\* Arc::into_inner in purge, after `self` has been moved in: Some(guard) only
\* if no other holder of the Arc is left.
into_inner_any(r) == TRUE
into_inner_is_some(r) == StrongCount(r) = 0

\* Arc::into_inner gave None: the caller's reference is dropped, the guard
\* stays with the other holders.
into_inner_none_releases(r) == NoGuard
into_inner_none(r) == r

\* Guards of process p whose InstanceStateHandle is alive.
Handles(p) ==
    {g \in GuardIds : guards[g].live /\ guards[g].proc = p /\ guards[g].ih}

SetPc(p, at, g, id, slug, val) ==
    pc' = [pc EXCEPT ![p] = [at |-> at, g |-> g, id |-> id, slug |-> slug, val |-> val]]
Return(p, r) == /\ pc' = [pc EXCEPT ![p] = Idle]
                /\ res' = r

\* ----------------------------------------------------------- acquire_instance

\* parent.make_secure_directory(subdir): creates the directory if it is absent;
\* maps "exists before" to "exists after".
check_existing_directory(exists) == exists
make_secure_directory(exists) == TRUE

\* History for the operation's record: the step just taken was the crash of a
\* process inside purge of idstr, after remove_dir_all and before
\* delete_lock_file, and the instance had records when purge was called.
AfterCrashedPurge(idstr) ==
    /\ res.op = "crash" /\ res.out = "purge_delete_lock_file"
    /\ res.id = idstr /\ res.val = "records"

\* with_instance_path_pieces: the kind must not be empty, and the kind and the
\* identity string must both be slugs, before the callback is called.
with_instance_path_pieces_kind_only(kind_str, id_string) ==
    Len(kind_str) # 0 /\ ValidSlug(kind_str)
with_instance_path_pieces(kind_str, id_string) ==
    Len(kind_str) # 0 /\ ValidSlug(kind_str) /\ ValidSlug(id_string)

\* An acquire_instance that makes the instance directory before it has the lock.
acquire_instance_dir_first(p, kindstr, idstr) ==
    /\ pc[p].at = "idle"
    /\ IF ~with_instance_path_pieces(kindstr, idstr)
       THEN /\ Return(p, ResRec(p, "acquire_instance", "BadSlug", idstr, kindstr, ""))
            /\ UNCHANGED <<fsvars, guards, stored>>
       ELSE /\ GuardAvailable
            /\ kindDir' = make_secure_directory(kindDir)
            /\ instDir' = [instDir EXCEPT ![idstr] = make_secure_directory(@)]
            /\ SetPc(p, "acquire_try_lock", 0, idstr, kindstr,
                     IF AfterCrashedPurge(idstr) THEN "after_crashed_purge" ELSE "")
            /\ res' = NoRes
            /\ UNCHANGED <<lockFiles, rawDir, recFile, tmpFile, guards, stored>>

\* acquire_instance: with_instance_path_pieces, then make_secure_directory(KIND).
\* During the call the slug field of pc, and of a BadSlug result, is the kind.
acquire_instance(p, kindstr, idstr) ==
    /\ pc[p].at = "idle"
    /\ IF ~with_instance_path_pieces(kindstr, idstr)
       THEN /\ Return(p, ResRec(p, "acquire_instance", "BadSlug", idstr, kindstr, ""))
            /\ UNCHANGED <<fsvars, guards, stored>>
       ELSE /\ GuardAvailable
            /\ kindDir' = make_secure_directory(kindDir)
            /\ SetPc(p, "acquire_try_lock", 0, idstr, kindstr,
                     IF AfterCrashedPurge(idstr) THEN "after_crashed_purge" ELSE "")
            /\ res' = NoRes
            /\ UNCHANGED <<lockFiles, instDir, rawDir, recFile, tmpFile, guards, stored>>

\* The error acquire_instance returns for a lock attempt that gave no guard:
\* Ok(None) is AlreadyLocked, Err(source) is the I/O error.
lock_attempt_error_conflated(r) == "AlreadyLocked"
lock_attempt_error(r) == IF r = "None" THEN "AlreadyLocked" ELSE "IoError"

\* Ok(Some(guard)): the lock file exists from now on and p owns a new guard.
lock_granted(p, path) ==
    /\ FreeGuards # {}
    /\ lockFiles' = lockFiles \cup {path}
    /\ guards' = [guards EXCEPT ![NewGuardId] =
                     [live |-> TRUE, proc |-> p, id |-> pc[p].id, path |-> path,
                      linked |-> TRUE, ih |-> FALSE, sh |-> {}, rsd |-> FALSE,
                      local |-> TRUE]]
    /\ SetPc(p, "acquire_make_dir", NewGuardId, pc[p].id, pc[p].slug, pc[p].val)
    /\ res' = NoRes
    /\ UNCHANGED <<kindDir, instDir, rawDir, recFile, tmpFile, stored>>

\* A lock attempt that waits for the lock to become free.
acquire_lock_waiting(p) ==
    /\ pc[p].at = "acquire_try_lock"
    /\ ~FileLocked(lock_path(pc[p].id))
    /\ lock_granted(p, lock_path(pc[p].id))

\* LockFileGuard::try_lock(lock_path) and the match on its result.
acquire_try_lock(p) ==
    /\ pc[p].at = "acquire_try_lock"
    /\ LET path == lock_path(pc[p].id) IN
       IF lock_obtained(try_lock(path))
       THEN lock_granted(p, path)
       ELSE /\ Return(p, Res(p, "acquire_instance", lock_attempt_error(try_lock(path)),
                            pc[p].id))
            /\ UNCHANGED <<fsvars, guards, stored>>

\* try_lock fails with Err(source): the lock file could not be opened or locked.
acquire_try_lock_err(p) ==
    /\ pc[p].at = "acquire_try_lock"
    /\ Return(p, Res(p, "acquire_instance", lock_attempt_error("Err"), pc[p].id))
    /\ UNCHANGED <<fsvars, guards, stored>>

\* make_secure_directory(kind_dir, id), then Ok(InstanceStateHandle).
acquire_make_dir(p) ==
    /\ pc[p].at = "acquire_make_dir"
    /\ instDir' = [instDir EXCEPT ![pc[p].id] = make_secure_directory(@)]
    /\ guards' = [guards EXCEPT ![pc[p].g].local = FALSE, ![pc[p].g].ih = TRUE]
    /\ Return(p, ResRec(p, "acquire_instance", "Ok", pc[p].id, << >>, pc[p].val))
    /\ UNCHANGED <<kindDir, lockFiles, rawDir, recFile, tmpFile, stored>>

\* ------------------------------------------------- handles made and dropped

\* A drop of the InstanceStateHandle that also clears the instance's records.
drop_handle_clearing(p, g) ==
    /\ pc[p].at = "idle"
    /\ g \in Handles(p)
    /\ guards' = [guards EXCEPT ![g] = AfterDrop([guards[g] EXCEPT !.ih = FALSE])]
    /\ recFile' = [recFile EXCEPT ![guards[g].id] = [s \in Slugs |-> NoFile]]
    /\ Return(p, Res(p, "drop", "Ok", guards[g].id))
    /\ UNCHANGED <<kindDir, lockFiles, instDir, rawDir, tmpFile, stored>>

\* drop(InstanceStateHandle)
drop_handle(p, g) ==
    /\ pc[p].at = "idle"
    /\ g \in Handles(p)
    /\ guards' = [guards EXCEPT ![g] = AfterDrop([guards[g] EXCEPT !.ih = FALSE])]
    /\ Return(p, Res(p, "drop", "Ok", guards[g].id))
    /\ UNCHANGED <<fsvars, stored>>

\* A storage_handle that does not look at the result of the slug conversion.
storage_handle_unchecked(p, g, slugstr) ==
    /\ pc[p].at = "idle"
    /\ g \in Handles(p)
    /\ slugstr \notin guards[g].sh
    /\ guards' = [guards EXCEPT ![g].sh = @ \cup {slugstr}]
    /\ Return(p, Res(p, "storage_handle", "Ok", guards[g].id))
    /\ UNCHANGED <<fsvars, stored>>

\* InstanceStateHandle::storage_handle(slug); the caller uses each slug once.
storage_handle(p, g, slugstr) ==
    /\ pc[p].at = "idle"
    /\ g \in Handles(p)
    /\ IF ~ValidSlug(slugstr)
       THEN /\ Return(p, Res(p, "storage_handle", "BadSlug", guards[g].id))
            /\ UNCHANGED <<fsvars, guards, stored>>
       ELSE /\ slugstr \notin guards[g].sh
            /\ guards' = [guards EXCEPT ![g].sh = @ \cup {slugstr}]
            /\ Return(p, Res(p, "storage_handle", "Ok", guards[g].id))
            /\ UNCHANGED <<fsvars, stored>>

\* drop(StorageHandle)
drop_storage_handle(p, g, s) ==
    /\ pc[p].at = "idle"
    /\ guards[g].live /\ guards[g].proc = p /\ s \in guards[g].sh
    /\ guards' = [guards EXCEPT ![g] = AfterDrop([guards[g] EXCEPT !.sh = @ \ {s}])]
    /\ Return(p, Res(p, "drop", "Ok", guards[g].id))
    /\ UNCHANGED <<fsvars, stored>>

\* InstanceStateHandle::raw_subdir(slug); the caller uses each slug once.
raw_subdir(p, g, slugstr) ==
    /\ pc[p].at = "idle"
    /\ g \in Handles(p)
    /\ IF ~ValidSlug(slugstr)
       THEN /\ Return(p, Res(p, "raw_subdir", "BadSlug", guards[g].id))
            /\ UNCHANGED <<fsvars, guards, stored>>
       ELSE /\ ~guards[g].rsd
            /\ rawDir' = [rawDir EXCEPT ![guards[g].id] = make_secure_directory(@)]
            /\ guards' = [guards EXCEPT ![g].rsd = TRUE]
            /\ Return(p, Res(p, "raw_subdir", "Ok", guards[g].id))
            /\ UNCHANGED <<kindDir, lockFiles, instDir, recFile, tmpFile, stored>>

\* drop(InstanceRawSubdir)
drop_raw_subdir(p, g) ==
    /\ pc[p].at = "idle"
    /\ guards[g].live /\ guards[g].proc = p /\ guards[g].rsd
    /\ guards' = [guards EXCEPT ![g] = AfterDrop([guards[g] EXCEPT !.rsd = FALSE])]
    /\ Return(p, Res(p, "drop", "Ok", guards[g].id))
    /\ UNCHANGED <<fsvars, stored>>

\* ---------------------------------------------------------------------- purge

\* Entries of the instance directory of i: its record files, temporary files
\* and the raw subdirectory.
RecEntries(i) == {s \in Slugs : recFile[i][s].exists}
TmpEntries(i) == {s \in Slugs : tmpFile[i][s].exists}
DirEmpty(i) == RecEntries(i) = {} /\ TmpEntries(i) = {} /\ ~rawDir[i]

\* The order of purge's steps once it owns the guard: remove_dir_all(dir),
\* then delete_lock_file, then the guard is dropped and purge returns.
purge_next_lock_file_first(at) ==
    CASE at = "purge" -> "purge_delete_lock_file"
      [] at = "purge_delete_lock_file" -> "purge_remove_dir_all"
      [] at = "purge_remove_dir_all" -> "purge_drop_guard"
purge_next(at) ==
    CASE at = "purge" -> "purge_remove_dir_all"
      [] at = "purge_remove_dir_all" -> "purge_delete_lock_file"
      [] at = "purge_delete_lock_file" -> "purge_drop_guard"

\* InstanceStateHandle::purge(self): Arc::into_inner on the lock guard.
purge(p, g) ==
    /\ pc[p].at = "idle"
    /\ g \in Handles(p)
    /\ LET r == [guards[g] EXCEPT !.ih = FALSE] IN
       IF into_inner_is_some(r)
       THEN /\ guards' = [guards EXCEPT ![g] = [r EXCEPT !.local = TRUE]]
            /\ SetPc(p, purge_next("purge"), g, r.id, << >>,
                     IF RecEntries(r.id) # {} THEN "records" ELSE "")
            /\ res' = NoRes
            /\ UNCHANGED <<fsvars, stored>>
       ELSE /\ guards' = [guards EXCEPT ![g] = into_inner_none(r)]
            /\ Return(p, Res(p, "purge", "BadApiUsage", guards[g].id))
            /\ UNCHANGED <<fsvars, stored>>

\* A remove_dir_all that removes the record of that name in every instance
\* directory of the kind.
purge_remove_dir_all_kind_wide(p) ==
    /\ pc[p].at = "purge_remove_dir_all"
    /\ LET i == pc[p].id IN
       IF ~instDir[i]
       THEN /\ guards' = [guards EXCEPT ![pc[p].g] = NoGuard]
            /\ Return(p, Res(p, "purge", "IoError", pc[p].id))
            /\ UNCHANGED <<fsvars, stored>>
       ELSE IF DirEmpty(i)
       THEN /\ instDir' = [instDir EXCEPT ![i] = FALSE]
            /\ SetPc(p, purge_next("purge_remove_dir_all"), pc[p].g, i, << >>, pc[p].val)
            /\ res' = NoRes
            /\ UNCHANGED <<kindDir, lockFiles, rawDir, recFile, tmpFile, guards, stored>>
       ELSE /\ \/ \E s \in RecEntries(i) :
                    /\ recFile' = [j \in Ids |-> [recFile[j] EXCEPT ![s] = NoFile]]
                    /\ stored' = [j \in Ids |-> [stored[j] EXCEPT ![s] = "None"]]
                    /\ UNCHANGED <<tmpFile, rawDir>>
               \/ \E s \in TmpEntries(i) :
                    /\ tmpFile' = [tmpFile EXCEPT ![i][s] = NoFile]
                    /\ UNCHANGED <<recFile, rawDir, stored>>
               \/ /\ rawDir[i]
                  /\ rawDir' = [rawDir EXCEPT ![i] = FALSE]
                  /\ UNCHANGED <<recFile, tmpFile, stored>>
            /\ res' = NoRes
            /\ UNCHANGED <<kindDir, lockFiles, instDir, guards, pc>>

\* fs::remove_dir_all(dir): one step per entry removed, then the directory.
\* An error (the directory is not there) returns, dropping the guard.
purge_remove_dir_all(p) ==
    /\ pc[p].at = "purge_remove_dir_all"
    /\ LET i == pc[p].id IN
       IF ~instDir[i]
       THEN /\ guards' = [guards EXCEPT ![pc[p].g] = NoGuard]
            /\ Return(p, Res(p, "purge", "IoError", pc[p].id))
            /\ UNCHANGED <<fsvars, stored>>
       ELSE IF DirEmpty(i)
       THEN /\ instDir' = [instDir EXCEPT ![i] = FALSE]
            /\ SetPc(p, purge_next("purge_remove_dir_all"), pc[p].g, i, << >>, pc[p].val)
            /\ res' = NoRes
            /\ UNCHANGED <<kindDir, lockFiles, rawDir, recFile, tmpFile, guards, stored>>
       ELSE /\ \/ \E s \in RecEntries(i) :
                    /\ recFile' = [recFile EXCEPT ![i][s] = NoFile]
                    /\ stored' = [stored EXCEPT ![i][s] = "None"]
                    /\ UNCHANGED <<tmpFile, rawDir>>
               \/ \E s \in TmpEntries(i) :
                    /\ tmpFile' = [tmpFile EXCEPT ![i][s] = NoFile]
                    /\ UNCHANGED <<recFile, rawDir, stored>>
               \/ /\ rawDir[i]
                  /\ rawDir' = [rawDir EXCEPT ![i] = FALSE]
                  /\ UNCHANGED <<recFile, tmpFile, stored>>
            /\ res' = NoRes
            /\ UNCHANGED <<kindDir, lockFiles, instDir, guards, pc>>

\* Where purge goes when fs::remove_dir_all returns an error: the `?` returns
\* from purge at once.
remove_dir_all_failed_ignored(at) == purge_next(at)
remove_dir_all_failed(at) == "return"

\* fs::remove_dir_all(dir) fails for I/O reasons, at the start or after it
\* has removed some entries: purge returns the error and drops the guard.
purge_remove_dir_all_err(p) ==
    /\ pc[p].at = "purge_remove_dir_all"
    /\ IF remove_dir_all_failed(pc[p].at) = "return"
       THEN /\ guards' = [guards EXCEPT ![pc[p].g] = NoGuard]
            /\ Return(p, Res(p, "purge", "IoError", pc[p].id))
       ELSE /\ SetPc(p, remove_dir_all_failed(pc[p].at), pc[p].g, pc[p].id, << >>,
                     pc[p].val)
            /\ res' = NoRes
            /\ UNCHANGED guards
    /\ UNCHANGED <<fsvars, stored>>

\* LockFileGuard::delete_lock_file(dir.with_extension("lock")): removes the
\* file of that name; the guards that had it open keep a file with no name.
purge_delete_lock_file(p) ==
    /\ pc[p].at = "purge_delete_lock_file"
    /\ LET path == purge_lock_path(pc[p].id) IN
       IF path \notin lockFiles
       THEN /\ guards' = [guards EXCEPT ![pc[p].g] = NoGuard]
            /\ Return(p, Res(p, "purge", "IoError", pc[p].id))
            /\ UNCHANGED <<fsvars, stored>>
       ELSE /\ lockFiles' = lockFiles \ {path}
            /\ guards' = [g \in GuardIds |->
                             IF guards[g].live /\ guards[g].path = path
                             THEN [guards[g] EXCEPT !.linked = FALSE]
                             ELSE guards[g]]
            /\ SetPc(p, purge_next("purge_delete_lock_file"), pc[p].g, pc[p].id, << >>,
                     pc[p].val)
            /\ res' = NoRes
            /\ UNCHANGED <<kindDir, instDir, rawDir, recFile, tmpFile, stored>>

\* The guard consumed by delete_lock_file is dropped; purge returns Ok.
purge_drop_guard(p) ==
    /\ pc[p].at = "purge_drop_guard"
    /\ guards' = [guards EXCEPT ![pc[p].g] = NoGuard]
    /\ Return(p, ResRec(p, "purge", "Ok", pc[p].id, << >>, pc[p].val))
    /\ UNCHANGED <<fsvars, stored>>

\* --------------------------------------------------------------- StorageHandle

HasStorage(p, g, s) == guards[g].live /\ guards[g].proc = p /\ s \in guards[g].sh

\* The text store has to put into the temporary file before renaming it.
store_renames_early(v, written) == TRUE
store_written(v, written) == written = Serialize(v)

\* StorageHandle::store(v): serialise, create (or truncate) the temporary file.
store(p, g, s, v) ==
    /\ pc[p].at = "idle"
    /\ HasStorage(p, g, s)
    /\ tmpFile' = [tmpFile EXCEPT ![guards[g].id][s] = FileOf(<< >>)]
    /\ SetPc(p, "store_write", g, guards[g].id, s, v)
    /\ res' = NoRes
    /\ UNCHANGED <<kindDir, lockFiles, instDir, rawDir, recFile, guards, stored>>

\* One write() of the next WriteChunk tokens to the temporary file.
store_write(p) ==
    /\ pc[p].at = "store_write"
    /\ LET i == pc[p].id
           s == pc[p].slug
           text == Serialize(pc[p].val)
           have == Len(tmpFile[i][s].data)
           upto == IF have + WriteChunk > Len(text) THEN Len(text) ELSE have + WriteChunk
       IN  /\ tmpFile[i][s].exists
           /\ ~store_written(pc[p].val, tmpFile[i][s].data)
           /\ tmpFile' = [tmpFile EXCEPT ![i][s] = FileOf(SubSeq(text, 1, upto))]
    /\ res' = NoRes
    /\ UNCHANGED <<kindDir, lockFiles, instDir, rawDir, recFile, guards, pc, stored>>

\* A write() fails (disk full): store returns the error, the record is as it was.
store_write_err(p) ==
    /\ pc[p].at = "store_write"
    /\ Return(p, ResRec(p, "store", "IoError", pc[p].id, pc[p].slug, pc[p].val))
    /\ UNCHANGED <<fsvars, guards, stored>>

\* rename(tmp, SLUG.json): the record is replaced in one step.  This is the
\* point at which the store takes effect.
store_rename(p) ==
    /\ pc[p].at = "store_write"
    /\ LET i == pc[p].id
           s == pc[p].slug
       IN  /\ tmpFile[i][s].exists
           /\ store_written(pc[p].val, tmpFile[i][s].data)
           /\ recFile' = [recFile EXCEPT ![i][s] = tmpFile[i][s]]
           /\ tmpFile' = [tmpFile EXCEPT ![i][s] = NoFile]
           /\ stored' = [stored EXCEPT ![i][s] = pc[p].val]
    /\ SetPc(p, "store_return", pc[p].g, pc[p].id, pc[p].slug, pc[p].val)
    /\ res' = NoRes
    /\ UNCHANGED <<kindDir, lockFiles, instDir, rawDir, guards>>

\* store returns Ok to its caller.
store_return(p) ==
    /\ pc[p].at = "store_return"
    /\ Return(p, ResRec(p, "store", "Ok", pc[p].id, pc[p].slug, pc[p].val))
    /\ UNCHANGED <<fsvars, guards, stored>>

\* load_store::Target::delete on a file: the file is removed; a file that is
\* not there is not an error.
TargetDelete(f) == [out |-> "Ok", file |-> NoFile]

\* The closure StorageHandle::delete runs on its target.
delete_closure_loads(f) == [out |-> "Ok", file |-> f]
delete_closure(f) == TargetDelete(f)

\* StorageHandle::delete().  The result records whether there was a record.
delete(p, g, s) ==
    /\ pc[p].at = "idle"
    /\ HasStorage(p, g, s)
    /\ LET i == guards[g].id
           r == delete_closure(recFile[i][s])
       IN  /\ recFile' = [recFile EXCEPT ![i][s] = r.file]
           /\ stored' = [stored EXCEPT ![i][s] = "None"]
           /\ Return(p, ResRec(p, "delete", r.out, i, s,
                               IF recFile[i][s].exists THEN "removed" ELSE "absent"))
    /\ UNCHANGED <<kindDir, lockFiles, instDir, rawDir, tmpFile, guards>>

\* What load reads: the record file (never the temporary file).
load_source_tmp(i, s) == IF tmpFile[i][s].exists THEN tmpFile[i][s] ELSE recFile[i][s]
load_source(i, s) == recFile[i][s]

\* StorageHandle::load()
load(p, g, s) ==
    /\ pc[p].at = "idle"
    /\ HasStorage(p, g, s)
    /\ LET r == TargetLoad(load_source(guards[g].id, s)) IN
       Return(p, ResRec(p, "load", r.out, guards[g].id, s, r.val))
    /\ UNCHANGED <<fsvars, guards, stored>>

\* The file instance_peek_storage reads: KIND/ID/SLUG.json under the state dir.
peek_source_tmp(i, s) == IF tmpFile[i][s].exists THEN tmpFile[i][s] ELSE recFile[i][s]
peek_source_no_json(i, s) == NoFile
peek_source(i, s) == recFile[i][s]

\* A peek that goes through the instance's lock: refused while the lock is
\* held, and the lock attempt leaves the kind directory and the lock file.
instance_peek_storage_locking(p, idstr, slugstr) ==
    /\ pc[p].at = "idle"
    /\ IF ~with_instance_path_pieces(Kind, idstr) \/ ~ValidSlug(slugstr)
       THEN /\ Return(p, ResRec(p, "peek", "BadSlug", idstr, slugstr, ""))
            /\ UNCHANGED <<kindDir, lockFiles>>
       ELSE IF FileLocked(lock_path(idstr))
       THEN /\ Return(p, ResRec(p, "peek", "AlreadyLocked", idstr, slugstr, ""))
            /\ UNCHANGED <<kindDir, lockFiles>>
       ELSE LET r == TargetLoad(recFile[idstr][slugstr]) IN
            /\ Return(p, ResRec(p, "peek", r.out, idstr, slugstr, r.val))
            /\ kindDir' = TRUE
            /\ lockFiles' = lockFiles \cup {lock_path(idstr)}
    /\ UNCHANGED <<instDir, rawDir, recFile, tmpFile, guards, stored>>

\* StateDirectory::instance_peek_storage(identity, slug): no lock is taken.
instance_peek_storage(p, idstr, slugstr) ==
    /\ pc[p].at = "idle"
    /\ IF ~with_instance_path_pieces(Kind, idstr) \/ ~ValidSlug(slugstr)
       THEN Return(p, ResRec(p, "peek", "BadSlug", idstr, slugstr, ""))
       ELSE LET r == TargetLoad(peek_source(idstr, slugstr)) IN
            Return(p, ResRec(p, "peek", r.out, idstr, slugstr, r.val))
    /\ UNCHANGED <<fsvars, guards, stored>>

\* ---------------------------------------------------------------------- crash

\* Process p terminates at any point: its operation is abandoned, its objects
\* are gone and the OS releases the locks its guards held.  Files stay.
crash(p) ==
    /\ pc[p].at # "idle" \/ \E g \in GuardIds : guards[g].live /\ guards[g].proc = p
    /\ guards' = [g \in GuardIds |->
                     IF guards[g].proc = p THEN NoGuard ELSE guards[g]]
    /\ Return(p, ResRec(p, "crash", pc[p].at, pc[p].id, pc[p].slug, pc[p].val))
    /\ UNCHANGED <<fsvars, stored>>

\* --------------------------------------------- threads sharing a StorageHandle

\* In this part the entries of pc are two threads of the one process that
\* owns the handles: a StorageHandle can be moved or lent to another thread.

\* The modification of a read-modify-write cycle: no record becomes 42, 42
\* becomes 7, and 7 is deleted again.
Update(v) ==
    CASE v = "None" -> "42"
      [] v = "42" -> "7"
      [] v = "7" -> "None"

\* What a caller sees of a loaded record.
Loaded(r) == IF r.out = "Some" THEN r.val ELSE "None"

\* Some thread is inside a cycle that writes through the StorageHandle (g, s):
\* it holds the handle by `&mut`.
BorrowedMut(g, s) ==
    \E t \in Procs :
        /\ pc[t].at \in {"rmw_loaded", "store_write", "store_return"}
        /\ pc[t].g = g /\ pc[t].slug = s

\* store and delete take `&mut self`: a cycle that writes can start only when
\* nobody else holds the handle.
borrow_shared(g, s) == TRUE
borrow_mut(g, s) == ~BorrowedMut(g, s)

\* A thread starts a read-modify-write cycle on a StorageHandle: load().
rmw_load(t, g, s) ==
    /\ pc[t].at = "idle"
    /\ guards[g].live /\ s \in guards[g].sh
    /\ borrow_mut(g, s)
    /\ LET r == TargetLoad(load_source(guards[g].id, s)) IN
          /\ SetPc(t, "rmw_loaded", g, guards[g].id, s, Loaded(r))
          /\ res' = ResRec(t, "load", r.out, guards[g].id, s, r.val)
    /\ UNCHANGED <<fsvars, guards, stored>>

\* The cycle goes on: store(Update(v)), or delete() when there is nothing to
\* store.
rmw_store(t) ==
    /\ pc[t].at = "rmw_loaded"
    /\ LET i == pc[t].id
           s == pc[t].slug
           v == Update(pc[t].val)
       IN  IF v = "None"
           THEN /\ recFile' = [recFile EXCEPT ![i][s] = delete_closure(recFile[i][s]).file]
                /\ stored' = [stored EXCEPT ![i][s] = "None"]
                /\ Return(t, ResRec(t, "delete", delete_closure(recFile[i][s]).out, i, s,
                                    IF recFile[i][s].exists THEN "removed" ELSE "absent"))
                /\ UNCHANGED tmpFile
           ELSE /\ tmpFile' = [tmpFile EXCEPT ![i][s] = FileOf(<< >>)]
                /\ SetPc(t, "store_write", pc[t].g, i, s, v)
                /\ res' = NoRes
                /\ UNCHANGED <<recFile, stored>>
    /\ UNCHANGED <<kindDir, lockFiles, instDir, rawDir, guards>>

\* ----------------------------------------------------------------- purge scan

\* enum Liveness: what InstancePurgeHandler::name_filter answers.
Liveness == {"PossiblyUnused", "Live"}

\* StateDirectory::purge_instances(filter), for a filter whose name_filter
\* answers `liveness` for every instance and whose retain_unused_for is
\* Duration::ZERO.  The body is todo!(): the call panics at once; no instance
\* is listed or locked and no call of the filter is made.  The slug field of
\* the result is the sequence of identities passed to dispose.
purge_instances(p, liveness) ==
    /\ pc[p].at = "idle"
    /\ Return(p, ResRec(p, "purge_instances", "panic", << >>, << >>, liveness))
    /\ UNCHANGED <<fsvars, guards, stored>>

\* ------------------------------------------------------------ specifications

\* The lease protocol on two instances: acquire, the handles sharing the lease,
\* purge and crashes.
LeaseOps ==
    \/ \E p \in Procs, idstr \in IdStrings : acquire_instance(p, Kind, idstr)
    \/ \E p \in Procs : acquire_try_lock(p)
    \/ \E p \in Procs : acquire_make_dir(p)
    \/ \E p \in Procs, g \in GuardIds : drop_handle(p, g)
    \/ \E p \in Procs, g \in GuardIds, s \in SlugStrings : storage_handle(p, g, s)
    \/ \E p \in Procs, g \in GuardIds, s \in Slugs : drop_storage_handle(p, g, s)
    \/ \E p \in Procs, g \in GuardIds, s \in {raw, BadSlugStr} : raw_subdir(p, g, s)
    \/ \E p \in Procs, g \in GuardIds : drop_raw_subdir(p, g)
    \/ \E p \in Procs, g \in GuardIds : purge(p, g)
    \/ \E p \in Procs : purge_remove_dir_all(p)
    \/ \E p \in Procs : purge_delete_lock_file(p)
    \/ \E p \in Procs : purge_drop_guard(p)
    \/ \E p \in Procs : crash(p)

Next == LeaseOps

Spec == Init /\ [][Next]_vars

\* Acquisition, release and purge of the two instances, for any kind string;
\* a started acquire_instance keeps running: the calling thread is scheduled
\* until the call returns, unless the process ends.
NextAcquire ==
    \/ \E p \in Procs, idstr \in IdStrings : acquire_instance(p, Kind, idstr)
    \/ \E p \in Procs, kindstr \in BadKinds : acquire_instance(p, kindstr, Wild)
    \/ \E p \in Procs : acquire_try_lock(p)
    \/ \E p \in Procs : acquire_make_dir(p)
    \/ \E p \in Procs, g \in GuardIds : drop_handle(p, g)
    \/ \E p \in Procs, g \in GuardIds : purge(p, g)
    \/ \E p \in Procs : purge_remove_dir_all(p)
    \/ \E p \in Procs : purge_delete_lock_file(p)
    \/ \E p \in Procs : purge_drop_guard(p)
    \/ \E p \in Procs : crash(p)

SpecFair ==
    /\ Init /\ [][NextAcquire]_vars
    /\ \A p \in Procs : WF_vars(acquire_try_lock(p)) /\ WF_vars(acquire_make_dir(p))

\* The lock file paths of acquire_instance and purge, for every identity string
\* in PathIds: the part of acquire_instance up to the creation of the lock file,
\* and the call of delete_lock_file in purge.
acquire_lock_path(idstr) ==
    /\ IF ~with_instance_path_pieces(Kind, idstr)
       THEN /\ res' = ResRec("none", "acquire_instance", "BadSlug", idstr, Kind, "")
            /\ UNCHANGED lockFiles
       ELSE /\ Cardinality(lockFiles) < MaxGuards
            /\ lock_path(idstr) \notin lockFiles
            /\ lockFiles' = lockFiles \cup {lock_path(idstr)}
            /\ res' = Res("none", "try_lock", "Ok", idstr)
    /\ UNCHANGED <<kindDir, instDir, rawDir, recFile, tmpFile, guards, pc, stored>>

purge_lock_path_deleted(idstr) ==
    /\ with_instance_path_pieces(Kind, idstr)
    /\ lock_path(idstr) \in lockFiles
    /\ lockFiles' = lockFiles \ {purge_lock_path(idstr)}
    /\ res' = Res("none", "delete_lock_file",
                  IF purge_lock_path(idstr) \in lockFiles THEN "Ok" ELSE "IoError", idstr)
    /\ UNCHANGED <<kindDir, instDir, rawDir, recFile, tmpFile, guards, pc, stored>>

NextPaths ==
    \/ \E idstr \in PathIds : acquire_lock_path(idstr)
    \/ \E idstr \in PathIds : purge_lock_path_deleted(idstr)

SpecPaths == Init /\ [][NextPaths]_vars

\* Leases and records of the two instances side by side: acquire, release,
\* Record Stores and purge, with no process ending.
NextTwo ==
    \/ \E p \in Procs, idstr \in Ids : acquire_instance(p, Kind, idstr)
    \/ \E p \in Procs : acquire_try_lock(p)
    \/ \E p \in Procs : acquire_make_dir(p)
    \/ \E p \in Procs, g \in GuardIds : drop_handle(p, g)
    \/ \E p \in Procs, g \in GuardIds, s \in Slugs : storage_handle(p, g, s)
    \/ \E p \in Procs, g \in GuardIds, s \in Slugs : drop_storage_handle(p, g, s)
    \/ \E p \in Procs, g \in GuardIds : purge(p, g)
    \/ \E p \in Procs : purge_remove_dir_all(p)
    \/ \E p \in Procs : purge_delete_lock_file(p)
    \/ \E p \in Procs : purge_drop_guard(p)
    \/ \E p \in Procs, g \in GuardIds, s \in Slugs, v \in Values : store(p, g, s, v)
    \/ \E p \in Procs : store_write(p)
    \/ \E p \in Procs : store_rename(p)
    \/ \E p \in Procs : store_return(p)
    \/ \E p \in Procs, g \in GuardIds, s \in Slugs : delete(p, g, s)

SpecTwo == Init /\ [][NextTwo]_vars

\* Two threads of one process making read-modify-write cycles on the
\* StorageHandles of the process.
NextRmw ==
    \/ \E t \in Procs, idstr \in Ids : acquire_instance(t, Kind, idstr)
    \/ \E t \in Procs : acquire_try_lock(t)
    \/ \E t \in Procs : acquire_make_dir(t)
    \/ \E t \in Procs, g \in GuardIds, s \in Slugs : storage_handle(t, g, s)
    \/ \E t \in Procs, g \in GuardIds, s \in Slugs : rmw_load(t, g, s)
    \/ \E t \in Procs : rmw_store(t)
    \/ \E t \in Procs : store_write(t)
    \/ \E t \in Procs : store_rename(t)
    \/ \E t \in Procs : store_return(t)

SpecRmw == Init /\ [][NextRmw]_vars

\* The purge scan next to acquisition and release of the two instances.
NextScan ==
    \/ \E p \in Procs, idstr \in Ids : acquire_instance(p, Kind, idstr)
    \/ \E p \in Procs : acquire_try_lock(p)
    \/ \E p \in Procs : acquire_make_dir(p)
    \/ \E p \in Procs, g \in GuardIds : drop_handle(p, g)
    \/ \E p \in Procs, liveness \in Liveness : purge_instances(p, liveness)
    \/ \E p \in Procs : crash(p)

SpecScan == Init /\ [][NextScan]_vars

\* Every operation, records and I/O failures included, on the one instance
\* "wild".
NextStore ==
    \/ \E p \in Procs, idstr \in {Wild, EmptyStr, DashId} : acquire_instance(p, Kind, idstr)
    \/ \E p \in Procs : acquire_try_lock(p)
    \/ \E p \in Procs : acquire_try_lock_err(p)
    \/ \E p \in Procs : acquire_make_dir(p)
    \/ \E p \in Procs, g \in GuardIds : drop_handle(p, g)
    \/ \E p \in Procs, g \in GuardIds, s \in SlugStrings : storage_handle(p, g, s)
    \/ \E p \in Procs, g \in GuardIds, s \in Slugs : drop_storage_handle(p, g, s)
    \/ \E p \in Procs, g \in GuardIds, s \in {raw, BadSlugStr} : raw_subdir(p, g, s)
    \/ \E p \in Procs, g \in GuardIds : drop_raw_subdir(p, g)
    \/ \E p \in Procs, g \in GuardIds : purge(p, g)
    \/ \E p \in Procs : purge_remove_dir_all(p)
    \/ \E p \in Procs : purge_remove_dir_all_err(p)
    \/ \E p \in Procs : purge_delete_lock_file(p)
    \/ \E p \in Procs : purge_drop_guard(p)
    \/ \E p \in Procs, g \in GuardIds, s \in Slugs, v \in Values : store(p, g, s, v)
    \/ \E p \in Procs : store_write(p)
    \/ \E p \in Procs : store_rename(p)
    \/ \E p \in Procs : store_return(p)
    \/ \E p \in Procs : store_write_err(p)
    \/ \E p \in Procs, g \in GuardIds, s \in Slugs : delete(p, g, s)
    \/ \E p \in Procs, g \in GuardIds, s \in Slugs : load(p, g, s)
    \/ \E p \in Procs, i \in {Wild, DashId}, s \in SlugStrings :
          instance_peek_storage(p, i, s)
    \/ \E p \in Procs : crash(p)

SpecStore == Init /\ [][NextStore]_vars

\* ------------------------------------------------------------------- claims

\* A lease on an instance: a live guard that still locks the instance's lock
\* file, or that some handle, StorageHandle or InstanceRawSubdir refers to.
Lease(g) ==
    guards[g].live /\ (guards[g].linked \/ StrongCount(guards[g]) > 0)

\* Some InstanceStateHandle, StorageHandle or InstanceRawSubdir of i is alive.
HandleAlive(i) ==
    \E g \in GuardIds :
        guards[g].live /\ guards[g].id = i /\ StrongCount(guards[g]) > 0

\* No guard at all exists for i: every handle was dropped, no operation has one.
NoHolder(i) == \A g \in GuardIds : ~(guards[g].live /\ guards[g].id = i)

\* The step of p that leaves position `at` other than by crashing.
StepFrom(p, at) ==
    /\ pc[p].at = at
    /\ pc'[p] # pc[p]
    /\ ~(res'.op = "crash" /\ res'.proc = p)

\* C1: in every reachable state, whatever acquire_instance, drops, purges and
\* crashes came before, at most one lease exists for each (kind, identity).
C1_MutualExclusion ==
    \A g, h \in GuardIds :
        (Lease(g) /\ Lease(h) /\ guards[g].id = guards[h].id) => g = h

\* C1 witness: a lease is held by one process and another process's
\* acquire_instance for the same identity has just been refused.
C1_Witness ==
    /\ res.op = "acquire_instance" /\ res.out = "AlreadyLocked"
    /\ \E g \in GuardIds :
          Lease(g) /\ guards[g].id = res.id /\ guards[g].proc # res.proc

\* C2: the lock attempt of acquire_instance fails with AlreadyLocked whenever a
\* handle of that instance is alive (in any process), and goes on to return Ok
\* whenever every holder of the instance has been dropped.
C2_AcquireWhileHeldFails ==
    [][\A p \in Procs :
          /\ StepFrom(p, "acquire_try_lock") =>
                /\ HandleAlive(pc[p].id) =>
                      /\ res' = Res(p, "acquire_instance", "AlreadyLocked", pc[p].id)
                      /\ pc'[p] = Idle
                /\ NoHolder(pc[p].id) => pc'[p].at = "acquire_make_dir"
          /\ StepFrom(p, "acquire_make_dir") =>
                /\ res'.op = "acquire_instance" /\ res'.out = "Ok"
                /\ res'.proc = p /\ res'.id = pc[p].id
                /\ guards'[pc[p].g].ih /\ guards'[pc[p].g].proc = p
                /\ guards'[pc[p].g].id = pc[p].id
      ]_vars

\* C2 witness: acquire_instance was refused while the same process holds the
\* InstanceStateHandle of that instance.
C2_Witness ==
    /\ res.op = "acquire_instance" /\ res.out = "AlreadyLocked"
    /\ \E g \in GuardIds :
          guards[g].live /\ guards[g].ih /\ guards[g].id = res.id
          /\ guards[g].proc = res.proc

\* C3: a process that terminates holds no lease afterwards, and an instance no
\* live guard refers to can always be locked, whatever files the terminated
\* process left behind; no instance stays AlreadyLocked without a live holder.
C3_CrashReleasesLease ==
    /\ res.op = "crash" =>
          \A g \in GuardIds : ~(guards[g].live /\ guards[g].proc = res.proc)
    /\ \A i \in Ids : NoHolder(i) => lock_obtained(try_lock(lock_path(i)))

\* C3 witness: a process crashed in purge between the two deletions, leaving the
\* lock file on disk, and nobody holds the instance.
C3_Witness ==
    /\ res.op = "crash" /\ res.out = "purge_delete_lock_file"
    /\ lock_path(res.id) \in lockFiles
    /\ NoHolder(res.id)

PurgeCall(p, g) ==
    /\ pc[p].at = "idle"
    /\ g \in Handles(p)
    /\ ~guards'[g].ih
    /\ res'.op # "drop" /\ res'.op # "crash"

\* C5: purge called while another holder of the handle's lease is alive returns
\* BadApiUsage, and a purge that returns BadApiUsage has changed no directory,
\* record, temporary file or lock file.
C5_PurgeSharedFails ==
    [][/\ \A p \in Procs, g \in GuardIds :
             (PurgeCall(p, g) /\ StrongCount(guards[g]) > 1) =>
                 /\ res' = Res(p, "purge", "BadApiUsage", guards[g].id)
                 /\ pc'[p] = Idle
       /\ (res'.op = "purge" /\ res'.out = "BadApiUsage") => UNCHANGED fsvars
      ]_vars

\* C5 witness: purge was refused and the instance still has its directory, a
\* stored record and its lock file.
C5_Witness ==
    /\ res.op = "purge" /\ res.out = "BadApiUsage"
    /\ instDir[res.id] /\ recFile[res.id][stored_data].exists
    /\ lock_path(res.id) \in lockFiles

\* C6: a purge that owns the lease alone goes through both deletions and
\* returns Ok; once the second deletion is done the instance directory and the
\* lock file are gone, the lock can be taken, and instance_peek_storage reads
\* None for every slug.
C6_PurgeRemoves ==
    [][\A p \in Procs, i \in Ids :
          /\ (StepFrom(p, "purge_delete_lock_file") /\ pc[p].id = i) =>
                /\ pc'[p].at = "purge_drop_guard"
                /\ ~instDir'[i]
                /\ lock_path(i) \notin lockFiles'
                /\ lock_obtained(try_lock(lock_path(i)))'
                /\ \A s \in Slugs : TargetLoad(peek_source(i, s))'.out = "None"
          /\ StepFrom(p, "purge_drop_guard") =>
                res'.op = "purge" /\ res'.out = "Ok" /\ res'.proc = p
          /\ (res'.op = "purge" /\ res'.out = "Ok" /\ res'.proc = p) =>
                pc[p].at = "purge_drop_guard"
      ]_vars

\* C6 witness: purge returned Ok for an instance that had a stored record when
\* purge was called; the directory and the lock file are gone.
C6_Witness ==
    /\ res.op = "purge" /\ res.out = "Ok" /\ res.val = "records"
    /\ ~instDir[res.id] /\ lock_path(res.id) \notin lockFiles

\* C7: purge removes the lock file only after the instance directory is gone;
\* after a crash between the two deletions the directory is absent, the lock
\* file is present and can be locked, and acquire_instance then creates the
\* directory empty, every record of the instance loading as None.
C7_PurgeCrashHeals ==
    [][\A i \in Ids :
          /\ (lock_path(i) \in lockFiles /\ lock_path(i) \notin lockFiles') =>
                ~instDir[i]
          /\ (res'.op = "crash" /\ res'.out = "purge_delete_lock_file" /\ res'.id = i) =>
                /\ ~instDir'[i] /\ lock_path(i) \in lockFiles'
                /\ lock_obtained(try_lock(lock_path(i)))'
          /\ \A p \in Procs :
                (StepFrom(p, "acquire_make_dir") /\ pc[p].id = i) =>
                    /\ instDir'[i]
                    /\ res'.op = "acquire_instance" /\ res'.out = "Ok"
                    /\ ~instDir[i] =>
                          /\ DirEmpty(i)'
                          /\ \A s \in Slugs : TargetLoad(load_source(i, s))'.out = "None"
      ]_vars

\* C7 witness: acquire_instance, called right after a process crashed between
\* the two deletions of a purge of an instance with records, has returned Ok and
\* the instance directory is back, empty.
C7_Witness ==
    /\ res.op = "acquire_instance" /\ res.out = "Ok"
    /\ res.val = "after_crashed_purge"
    /\ instDir[res.id] /\ DirEmpty(res.id)

\* C8: while a purge has not yet completed both deletions, the purging guard is
\* the only lease of the instance in any process and no acquire_instance for it
\* is past its lock attempt: no acquirer's directory is deleted under it.
C8_PurgeExcludesAcquire ==
    \A p \in Procs :
        pc[p].at \in {"purge_remove_dir_all", "purge_delete_lock_file"} =>
            /\ Lease(pc[p].g)
            /\ \A g \in GuardIds :
                  (Lease(g) /\ guards[g].id = pc[p].id) => g = pc[p].g
            /\ \A q \in Procs \ {p} :
                  ~(pc[q].at = "acquire_make_dir" /\ pc[q].id = pc[p].id)

\* C8 witness: one process is inside purge, before the lock file is deleted,
\* and another process's acquire_instance for that instance was just refused.
C8_Witness ==
    \E p \in Procs :
        /\ pc[p].at = "purge_delete_lock_file"
        /\ res.op = "acquire_instance" /\ res.out = "AlreadyLocked"
        /\ res.id = pc[p].id /\ res.proc # p

\* C9: every load() of a Record Store returns the value of the most recent
\* successful store to that record, or None if there was none or a delete
\* came after it; it never returns or fails on a partially written record.
C9_LoadReturnsLastStore ==
    res.op = "load" =>
        IF stored[res.id][res.slug] = "None"
        THEN res.out = "None"
        ELSE res.out = "Some" /\ res.val = stored[res.id][res.slug]

\* C9 witness: load returned the stored value while a temporary file with the
\* unfinished text of another store lies next to the record.
C9_Witness ==
    /\ res.op = "load" /\ res.out = "Some" /\ res.val = "7"
    /\ tmpFile[res.id][res.slug].exists
    /\ tmpFile[res.id][res.slug].data # Serialize("7")

\* C10: in the state a successful store(v) returns in, load() on the same
\* Record Store yields Some(v), for every value v.
C10_StoreLoadRoundTrip ==
    (res.op = "store" /\ res.out = "Ok") =>
        TargetLoad(load_source(res.id, res.slug)) = [out |-> "Some", val |-> res.val]

\* C10 witness: store(42) has returned Ok over a record that held 7 or nothing.
C10_Witness ==
    /\ res.op = "store" /\ res.out = "Ok" /\ res.val = "42"
    /\ recFile[res.id][res.slug].data = Serialize("42")

\* C11: delete() never returns an error, whether or not the record exists (a
\* second delete, or a delete of a record never stored, included), and in the
\* state it returns in load() on the same Record Store yields None; a delete of
\* an absent record changes no file.
C11_DeleteIdempotent ==
    [][\A i \in Ids, s \in Slugs :
          (res'.op = "delete" /\ res'.id = i /\ res'.slug = s) =>
              /\ res'.out = "Ok"
              /\ TargetLoad(load_source(i, s))' = [out |-> "None", val |-> ""]
              /\ ~recFile[i][s].exists => UNCHANGED fsvars
      ]_vars

\* C11 witness: delete() on a record that is not there (already deleted, or
\* never stored) has returned Ok.
C11_Witness ==
    /\ res.op = "delete" /\ res.out = "Ok" /\ res.val = "absent"
    /\ ~recFile[res.id][res.slug].exists

\* A store of the record (i, s) is between creating its temporary file and
\* returning.
StoreInProgress(i, s) ==
    \E q \in Procs :
        pc[q].at \in {"store_write", "store_return"} /\ pc[q].id = i /\ pc[q].slug = s

\* C12: instance_peek_storage, whatever store or delete another process is in
\* the middle of, returns None or Some(v) where v is a value whose complete text
\* a store put in place; it never fails on or returns a partly written record.
C12_PeekAtomic ==
    (res.op = "peek" /\ ValidSlug(res.id) /\ ValidSlug(res.slug)) =>
        \/ res.out = "None"
        \/ /\ res.out = "Some" /\ res.val \in Values
           /\ recFile[res.id][res.slug] = FileOf(Serialize(res.val))

\* C12 witness: a peek returned the record's value while another process is in
\* the middle of writing the temporary file of a store to the same record.
C12_Witness ==
    /\ res.op = "peek" /\ res.out = "Some"
    /\ \E q \in Procs \ {res.proc} :
          /\ pc[q].at = "store_write" /\ pc[q].id = res.id /\ pc[q].slug = res.slug
          /\ pc[q].val # res.val
          /\ Len(tmpFile[res.id][res.slug].data) \in 1 .. 3

\* C13: instance_peek_storage reads what load() of the Record Store of the same
\* identity and slug reads: None before any store, Some(v) after store(v) took
\* effect (also once the lease has been released), None after delete().
C13_PeekAgrees ==
    /\ \A i \in Ids, s \in Slugs :
          TargetLoad(peek_source(i, s)) = TargetLoad(load_source(i, s))
    /\ (res.op = "peek" /\ ValidSlug(res.id) /\ ValidSlug(res.slug)) =>
          IF stored[res.id][res.slug] = "None"
          THEN res.out = "None"
          ELSE res.out = "Some" /\ res.val = stored[res.id][res.slug]

\* C13 witness: a peek returned Some(42) for an instance nobody holds, with no
\* store in progress.
C13_Witness ==
    /\ res.op = "peek" /\ res.out = "Some" /\ res.val = "42"
    /\ NoHolder(res.id)
    /\ ~StoreInProgress(res.id, res.slug)

\* C14: an instance_peek_storage step changes no directory, lock file, record
\* or guard, so every lock attempt has the outcome it would have had without
\* it; with valid slugs it returns None or a value, also while another process
\* holds the instance and for an instance that was never acquired.
C14_PeekNoLease ==
    [][res'.op = "peek" =>
          /\ UNCHANGED <<fsvars, guards>>
          /\ \A i \in Ids : try_lock(lock_path(i))' = try_lock(lock_path(i))
          /\ (ValidSlug(res'.id) /\ ValidSlug(res'.slug)) => res'.out \in {"None", "Some"}
      ]_vars

\* C14 witness: a peek returned the stored value while another process holds
\* the InstanceStateHandle of that instance.
C14_Witness ==
    /\ res.op = "peek" /\ res.out = "Some"
    /\ \E g \in GuardIds :
          /\ guards[g].live /\ guards[g].ih /\ guards[g].id = res.id
          /\ guards[g].proc # res.proc

\* C15: while a store(v) is in progress the record changes only by the rename,
\* which puts the complete text of v in place; so whenever the storing process
\* crashes, load() and peek read the previous content of the record or v in
\* full, and the temporary file left behind is never what they read.
C15_StoreAtomic ==
    [][\A p \in Procs, i \in Ids, s \in Slugs :
          (pc[p].at \in {"store_write", "store_return"} /\ pc[p].id = i /\ pc[p].slug = s) =>
              /\ \/ recFile'[i][s] = recFile[i][s]
                 \/ /\ pc[p].at = "store_write" /\ pc'[p].at = "store_return"
                    /\ recFile'[i][s] = FileOf(Serialize(pc[p].val))
              /\ TargetLoad(load_source(i, s))' \in
                    {TargetLoad(recFile[i][s]), [out |-> "Some", val |-> pc[p].val]}
              /\ TargetLoad(peek_source(i, s))' = TargetLoad(load_source(i, s))'
              /\ TargetLoad(load_source(i, s))'.out \in {"None", "Some"}
              /\ (res'.op = "crash" /\ res'.proc = p) => recFile'[i][s] = recFile[i][s]
      ]_vars

\* C15 witness: a process crashed in the middle of writing the temporary file
\* of store(42); the half-written temporary file is left behind and the record
\* still holds 7.
C15_Witness ==
    /\ res.op = "crash" /\ res.out = "store_write" /\ res.val = "42"
    /\ Len(tmpFile[res.id][res.slug].data) \in 1 .. 3
    /\ recFile[res.id][res.slug] = FileOf(Serialize("7"))

\* What load() of the record (i, s) has to return: the last store or delete
\* that took effect.
LastStored(i, s) ==
    IF stored[i][s] = "None" THEN [out |-> "None", val |-> ""]
    ELSE [out |-> "Some", val |-> stored[i][s]]

\* C16: a drop of an InstanceStateHandle (or of a StorageHandle or
\* InstanceRawSubdir) changes no file or directory, and neither does any step
\* of a later acquire_instance except creating what is absent; in the state
\* acquire_instance returns Ok in, load() of every record of the instance yields
\* the value last stored.
C16_DropKeepsData ==
    [][/\ res'.op = "drop" =>
             /\ UNCHANGED fsvars
             /\ \A i \in Ids, s \in Slugs :
                   TargetLoad(load_source(i, s))' = LastStored(i, s)'
       /\ \A p \in Procs :
             (pc[p].at \in {"acquire_try_lock", "acquire_make_dir"} /\ pc'[p] # pc[p]) =>
                 UNCHANGED <<rawDir, recFile, tmpFile>>
       /\ \A i \in Ids, s \in Slugs :
             (res'.op = "acquire_instance" /\ res'.out = "Ok" /\ res'.id = i) =>
                 TargetLoad(load_source(i, s))' = LastStored(i, s)'
      ]_vars

\* C16 witness: the last holder of an instance was dropped, nobody holds the
\* instance any more, and its record still holds the stored 42.
C16_Witness ==
    /\ res.op = "drop" /\ NoHolder(res.id)
    /\ recFile[res.id][stored_data] = FileOf(Serialize("42"))
    /\ stored[res.id][stored_data] = "42"

\* C17: acquire_instance never waits: each of its steps can be taken in every
\* state the call is at it, so every call returns (a handle or an error); the
\* lock attempt made while the lock is held returns AlreadyLocked at once,
\* leaving the caller idle with no guard and no claim on the lease.
C17_TryOnce ==
    /\ [](\A p \in Procs :
            /\ pc[p].at = "acquire_try_lock" => ENABLED acquire_try_lock(p)
            /\ pc[p].at = "acquire_make_dir" => ENABLED acquire_make_dir(p))
    /\ [][\A p \in Procs :
            (StepFrom(p, "acquire_try_lock") /\ FileLocked(lock_path(pc[p].id))) =>
                /\ res' = Res(p, "acquire_instance", "AlreadyLocked", pc[p].id)
                /\ pc'[p] = Idle
                /\ guards' = guards
          ]_vars
    /\ \A p \in Procs :
          (pc[p].at \in {"acquire_try_lock", "acquire_make_dir"}) ~> (pc[p].at = "idle")

\* C17 witness: a call made while another process holds the handle of the
\* instance has returned AlreadyLocked; the caller is idle and owns no guard of
\* the instance.
C17_Witness ==
    /\ res.op = "acquire_instance" /\ res.out = "AlreadyLocked"
    /\ pc[res.proc].at = "idle"
    /\ \A g \in GuardIds : ~(guards[g].live /\ guards[g].proc = res.proc)
    /\ \E g \in GuardIds :
          guards[g].live /\ guards[g].ih /\ guards[g].id = res.id
          /\ guards[g].proc # res.proc

\* C18: a call of acquire_instance goes on to its first filesystem step only if
\* the kind is a non-empty slug and the identity string is a slug; otherwise it
\* returns BadSlug in the calling step, which changes no directory, lock file
\* or guard.  No lock file or guard ever exists for an invalid identity.
C18_BadSlugFirst ==
    [][/\ \A p \in Procs :
             (pc[p].at = "idle" /\ pc'[p].at = "acquire_try_lock") =>
                 /\ ValidSlug(pc'[p].id) /\ pc'[p].id \in Ids
                 /\ ValidSlug(pc'[p].slug) /\ pc'[p].slug = Kind
       /\ (res'.op = "acquire_instance" /\ res'.out = "BadSlug") =>
             /\ ~ValidSlug(res'.id) \/ ~ValidSlug(res'.slug)
             /\ pc[res'.proc].at = "idle" /\ pc'[res'.proc] = Idle
             /\ UNCHANGED <<fsvars, guards>>
       /\ lockFiles' \subseteq {lock_path(i) : i \in Ids}
       /\ \A g \in GuardIds : guards'[g].live => guards'[g].id \in Ids
      ]_vars

\* C18 witness: acquire_instance with an identity that starts with "-" has
\* returned BadSlug, and there is still no kind directory and no lock file.
C18_Witness ==
    /\ res.op = "acquire_instance" /\ res.out = "BadSlug" /\ res.id = DashId
    /\ ~kindDir /\ lockFiles = {}
    /\ \A g \in GuardIds : ~guards[g].live

\* C19: a lock attempt of acquire_instance that gives no handle returns
\* AlreadyLocked or the I/O error and changes nothing; it returns AlreadyLocked
\* only when a lease on the instance is held at that moment, and an attempt on
\* a lock that is held is never granted; so a failure of the attempt on a free
\* lock is always the I/O error, never AlreadyLocked.
C19_AlreadyLockedDistinct ==
    [][\A p \in Procs :
          StepFrom(p, "acquire_try_lock") =>
              /\ pc'[p].at = "acquire_make_dir" => ~FileLocked(lock_path(pc[p].id))
              /\ pc'[p].at # "acquire_make_dir" =>
                    /\ pc'[p] = Idle
                    /\ res'.op = "acquire_instance" /\ res'.proc = p
                    /\ res'.out \in {"AlreadyLocked", "IoError"}
                    /\ UNCHANGED <<fsvars, guards>>
              /\ res'.out = "AlreadyLocked" =>
                    /\ FileLocked(lock_path(pc[p].id))
                    /\ \E g \in GuardIds : Lease(g) /\ guards[g].id = pc[p].id
      ]_vars

\* C19 witness: the lock attempt failed for I/O reasons while nobody held the
\* instance, and acquire_instance returned the I/O error.
C19_Witness ==
    /\ res.op = "acquire_instance" /\ res.out = "IoError"
    /\ NoHolder(res.id)
    /\ ~FileLocked(lock_path(res.id))

\* C24: every live StorageHandle and InstanceRawSubdir shares a guard that
\* holds the lock of its instance, that guard is the only lease of the instance
\* (so all of them belong to one process), and a store in progress belongs to
\* the process that has the StorageHandle: no two processes write one instance.
C24_OnlyHolderWrites ==
    /\ \A g \in GuardIds :
          (guards[g].live /\ (guards[g].sh # {} \/ guards[g].rsd)) =>
              /\ guards[g].linked /\ FileLocked(lock_path(guards[g].id))
              /\ \A h \in GuardIds :
                    (Lease(h) /\ guards[h].id = guards[g].id) =>
                        h = g /\ guards[h].proc = guards[g].proc
    /\ \A p \in Procs :
          pc[p].at \in {"store_write", "store_return"} =>
              /\ HasStorage(p, pc[p].g, pc[p].slug)
              /\ guards[pc[p].g].id = pc[p].id
              /\ \A q \in Procs \ {p} :
                    ~(pc[q].at \in {"store_write", "store_return"} /\ pc[q].id = pc[p].id)

\* C24 witness: one process is in the middle of a store through its
\* StorageHandle and the other process's acquire_instance for that instance
\* has just been refused.
C24_Witness ==
    \E p \in Procs :
        /\ pc[p].at = "store_write"
        /\ Len(tmpFile[pc[p].id][pc[p].slug].data) > 0
        /\ res.op = "acquire_instance" /\ res.out = "AlreadyLocked"
        /\ res.id = pc[p].id /\ res.proc # p

\* Guard g has a StorageHandle or InstanceRawSubdir and its InstanceStateHandle
\* is gone.
DerivedOnly(g) ==
    guards[g].live /\ ~guards[g].ih /\ (guards[g].sh # {} \/ guards[g].rsd)

\* C25: the step that drops the InstanceStateHandle while a StorageHandle or
\* InstanceRawSubdir made from it is alive leaves the lock held; while only such
\* derived objects are left the lock stays held and every lock attempt for the
\* identity returns AlreadyLocked, and the lock is released by the step that
\* drops the last of them.
C25_DerivedShareLease ==
    [][/\ \A g \in GuardIds :
             (/\ guards[g].live /\ (guards[g].sh # {} \/ guards[g].rsd)
              /\ ~(res'.op = "crash" /\ res'.proc = guards[g].proc)) =>
                 IF guards'[g].sh # {} \/ guards'[g].rsd
                 THEN /\ guards'[g].live /\ guards'[g].linked
                      /\ guards'[g].id = guards[g].id
                      /\ FileLocked(lock_path(guards[g].id))'
                 ELSE guards'[g].ih \/ ~guards'[g].live
       /\ \A p \in Procs :
             (/\ StepFrom(p, "acquire_try_lock")
              /\ \E g \in GuardIds : DerivedOnly(g) /\ guards[g].id = pc[p].id) =>
                 /\ res' = Res(p, "acquire_instance", "AlreadyLocked", pc[p].id)
                 /\ pc'[p] = Idle
      ]_vars

\* C25 witness: acquire_instance was refused while the instance is held only
\* through an InstanceRawSubdir, its InstanceStateHandle and StorageHandles
\* having been dropped.
C25_Witness ==
    /\ res.op = "acquire_instance" /\ res.out = "AlreadyLocked"
    /\ \E g \in GuardIds :
          /\ DerivedOnly(g) /\ guards[g].id = res.id
          /\ guards[g].rsd /\ guards[g].sh = {}

\* C26: a purge called while a StorageHandle or InstanceRawSubdir made from the
\* handle is alive returns BadApiUsage and changes no file; a purge that goes on
\* to its deletions owns a guard nothing else refers to, and when it returns Ok
\* that guard is gone and no store through it is in progress.
C26_PurgeNeedsSoleOwner ==
    [][\A p \in Procs :
          /\ \A g \in GuardIds :
                (PurgeCall(p, g) /\ (guards[g].sh # {} \/ guards[g].rsd)) =>
                    /\ res'.op = "purge" /\ res'.out = "BadApiUsage" /\ res'.proc = p
                    /\ pc'[p] = Idle
                    /\ UNCHANGED fsvars
          /\ pc'[p].at \in {"purge_remove_dir_all", "purge_delete_lock_file",
                             "purge_drop_guard"} =>
                /\ guards'[pc'[p].g].live /\ guards'[pc'[p].g].proc = p
                /\ guards'[pc'[p].g].sh = {} /\ ~guards'[pc'[p].g].rsd
                /\ ~guards'[pc'[p].g].ih
          /\ (res'.op = "purge" /\ res'.out = "Ok" /\ res'.proc = p) =>
                /\ guards'[pc[p].g] = NoGuard
                /\ \A q \in Procs :
                      ~(pc'[q].at \in {"store_write", "store_return"}
                        /\ pc'[q].g = pc[p].g)
      ]_vars

\* C26 witness: purge returned Ok for an instance whose StorageHandle had
\* stored a record and was dropped before the purge; no guard of the instance
\* is left.
C26_Witness ==
    /\ res.op = "purge" /\ res.out = "Ok" /\ res.val = "records"
    /\ NoHolder(res.id)
    /\ \A q \in Procs : pc[q].at = "idle"

\* C27: the purge step that returns BadApiUsage takes away the caller's
\* InstanceStateHandle and nothing else: the guard stays live and locked with
\* the same StorageHandles and InstanceRawSubdir.  From then on the lock is held
\* as long as one of them is left, and free for acquire_instance as soon as
\* the last one has been dropped.
C27_FailedPurgeConsumes ==
    [][\A g \in GuardIds :
          /\ \A p \in Procs :
                (PurgeCall(p, g) /\ res'.op = "purge" /\ res'.out = "BadApiUsage") =>
                    /\ guards'[g].live /\ ~guards'[g].ih /\ guards'[g].linked
                    /\ guards'[g].proc = p
                    /\ guards'[g].sh = guards[g].sh /\ guards'[g].rsd = guards[g].rsd
                    /\ StrongCount(guards'[g]) + 1 = StrongCount(guards[g])
                    /\ StrongCount(guards'[g]) > 0
                    /\ ~lock_obtained(try_lock(lock_path(guards[g].id)))'
          /\ (DerivedOnly(g) /\ ~(res'.op = "crash" /\ res'.proc = guards[g].proc)) =>
                IF StrongCount(guards'[g]) > 0
                THEN ~lock_obtained(try_lock(lock_path(guards[g].id)))'
                ELSE /\ ~guards'[g].live
                     /\ res'.op = "drop"
                     /\ lock_obtained(try_lock(lock_path(guards[g].id)))'
      ]_vars

\* C27 witness: purge has just returned BadApiUsage; the caller's handle is
\* gone and the instance is still locked through the surviving StorageHandle.
C27_Witness ==
    /\ res.op = "purge" /\ res.out = "BadApiUsage"
    /\ \E g \in GuardIds :
          /\ DerivedOnly(g) /\ guards[g].id = res.id /\ guards[g].proc = res.proc
          /\ guards[g].sh # {}
          /\ FileLocked(lock_path(res.id))

\* C28: purge leaves remove_dir_all for the deletion of the lock file only when
\* the instance directory is gone; when remove_dir_all fails purge returns the
\* error in that step, with the lock file still there and no file changed, and
\* its guard is dropped, so that no lease on the instance is left and the lock
\* can be taken by the next acquire_instance.
C28_FailedDeletion ==
    [][\A p \in Procs, i \in Ids :
          (StepFrom(p, "purge_remove_dir_all") /\ pc[p].id = i) =>
              /\ \/ pc'[p].at \in {"purge_remove_dir_all", "purge_delete_lock_file"}
                 \/ pc'[p] = Idle
              /\ pc'[p].at = "purge_delete_lock_file" => (DirEmpty(i) /\ ~instDir'[i])
              /\ pc'[p] = Idle =>
                    /\ res' = Res(p, "purge", "IoError", i)
                    /\ UNCHANGED fsvars
                    /\ lock_path(i) \in lockFiles'
                    /\ guards'[pc[p].g] = NoGuard
                    /\ \A g \in GuardIds : ~(Lease(g) /\ guards[g].id = i)'
                    /\ lock_obtained(try_lock(lock_path(i)))'
      ]_vars

\* C28 witness: remove_dir_all failed after it had removed the record; purge
\* returned the error, the directory and the lock file are still there and
\* nobody holds the instance.
C28_Witness ==
    /\ res.op = "purge" /\ res.out = "IoError"
    /\ instDir[res.id] /\ lock_path(res.id) \in lockFiles
    /\ NoHolder(res.id) /\ ~FileLocked(lock_path(res.id))
    /\ tmpFile[res.id][stored_data].exists /\ ~recFile[res.id][stored_data].exists

\* C29: for every identity string that is a slug, with "_" and "-" in any
\* position after the first, the path purge gives to delete_lock_file is the
\* path acquire_instance locked: the deletion succeeds and removes exactly that
\* file, every other lock file staying.  Every lock file that exists is named
\* ID.lock for a slug ID.
C29_PurgeDeletesOwnLock ==
    [][/\ \A idstr \in PathIds :
             (res'.op = "delete_lock_file" /\ res'.id = idstr
              /\ <<lockFiles, res>>' # <<lockFiles, res>>) =>
                 /\ ValidSlug(idstr)
                 /\ res'.out = "Ok"
                 /\ idstr \o DotLock \in lockFiles
                 /\ lockFiles' = lockFiles \ {idstr \o DotLock}
       /\ \A f \in lockFiles' :
             \E idstr \in PathIds : ValidSlug(idstr) /\ f = idstr \o DotLock
      ]_vars

\* C29 witness: the lock file of the identity "a_-" has been deleted and the
\* lock file of another identity is still there.
C29_Witness ==
    /\ res.op = "delete_lock_file" /\ res.out = "Ok" /\ res.id = <<"a", "_", "-">>
    /\ <<"a", "_", "-">> \o DotLock \notin lockFiles
    /\ lockFiles # {}

\* C30: acquire_instance has the lock before it touches the instance directory:
\* the step that calls it, and the lock attempt, leave the instance directories
\* alone, and an instance directory comes into being only in the step of a call
\* that already owns the locked guard of that instance.  A lock attempt that
\* returns AlreadyLocked changes no file, no directory and no guard: the
\* holder's lease, the instance directory, the records and the lock file are as
\* before.
C30_LockBeforeDirectory ==
    [][/\ \A p \in Procs :
             (StepFrom(p, "idle") /\ pc'[p].at = "acquire_try_lock") =>
                 UNCHANGED <<lockFiles, instDir, rawDir, recFile, tmpFile, guards, stored>>
       /\ \A p \in Procs, i \in Ids :
             (StepFrom(p, "acquire_try_lock") /\ pc[p].id = i) =>
                 /\ UNCHANGED <<instDir, rawDir, recFile, tmpFile, stored>>
                 /\ (pc'[p] = Idle /\ res'.out = "AlreadyLocked") =>
                        /\ UNCHANGED <<fsvars, guards>>
                        /\ FileLocked(lock_path(i))'
                        /\ \E g \in GuardIds :
                               Lease(g)' /\ guards'[g].id = i /\ guards'[g] = guards[g]
       /\ \A i \in Ids :
             (instDir'[i] /\ ~instDir[i]) =>
                 \E p \in Procs :
                     /\ StepFrom(p, "acquire_make_dir") /\ pc[p].id = i
                     /\ guards[pc[p].g].live /\ guards[pc[p].g].linked
                     /\ guards[pc[p].g].proc = p /\ guards[pc[p].g].id = i
                     /\ lock_path(i) \in lockFiles
      ]_vars

\* C30 witness: acquire_instance has returned AlreadyLocked for an instance
\* whose holder has a StorageHandle and a stored record.
C30_Witness ==
    /\ res.op = "acquire_instance" /\ res.out = "AlreadyLocked"
    /\ instDir[res.id] /\ recFile[res.id][stored_data].exists
    /\ \E g \in GuardIds :
          /\ Lease(g) /\ guards[g].id = res.id /\ guards[g].proc # res.proc
          /\ guards[g].ih /\ guards[g].sh # {}

\* C31: in the state acquire_instance returns Ok in, the kind directory and the
\* instance directory exist and the returned handle's guard holds the lock on
\* the file KIND/ID.lock, which exists; this is so whether the kind directory,
\* the lock file and the instance directory existed when the call was made or
\* not, and what existed is kept as it was.
C31_AcquireEstablishes ==
    [][\A p \in Procs, i \in Ids :
          (StepFrom(p, "acquire_make_dir") /\ pc[p].id = i) =>
              /\ res' = ResRec(p, "acquire_instance", "Ok", i, << >>, pc[p].val)
              /\ pc'[p] = Idle
              /\ kindDir' /\ instDir'[i]
              /\ lock_path(i) \in lockFiles'
              /\ UNCHANGED <<kindDir, lockFiles, rawDir, recFile, tmpFile>>
              /\ \A j \in Ids \ {i} : instDir'[j] = instDir[j]
              /\ guards'[pc[p].g].live /\ guards'[pc[p].g].linked
              /\ guards'[pc[p].g].ih /\ guards'[pc[p].g].proc = p
              /\ guards'[pc[p].g].id = i /\ guards'[pc[p].g].path = lock_path(i)
              /\ \A g \in GuardIds \ {pc[p].g} :
                    ~(guards'[g].live /\ guards'[g].linked /\ guards'[g].path = lock_path(i))
      ]_vars

\* C31 witness: acquire_instance has returned Ok for an instance whose
\* directory, lock file and record were there from an earlier lease; the new
\* handle is the only holder.
C31_Witness ==
    /\ res.op = "acquire_instance" /\ res.out = "Ok" /\ res.val = ""
    /\ instDir[res.id] /\ recFile[res.id][stored_data].exists
    /\ stored[res.id][stored_data] # "None"
    /\ \E g \in Handles(res.proc) :
          /\ guards[g].id = res.id /\ guards[g].linked
          /\ guards[g].sh = {} /\ ~guards[g].rsd
    /\ \A q \in Procs : pc[q].at = "idle"

\* Everything of instance j on disk, and the guards that refer to j.
FilesOf(j) ==
    <<instDir[j], rawDir[j], recFile[j], tmpFile[j], stored[j], lock_path(j) \in lockFiles>>
GuardsOf(j) == {g \in GuardIds : guards[g].live /\ guards[g].id = j}

\* The step is one of an operation of p on instance i.
StepOn(p, i) ==
    \/ pc'[p] # pc[p] /\ (pc[p].id = i \/ pc'[p].id = i)
    \/ res'.proc = p /\ res'.id = i

\* C32: the lock attempt of acquire_instance for j succeeds whenever no guard
\* of j itself holds j's lock, whatever is held, acquired, dropped or purged
\* on the other instance, and returns AlreadyLocked only when a guard of j
\* holds it.  A step of an operation on instance i changes nothing of another
\* instance j: its directory, records, temporary files, lock file and guards
\* stay; a step inside a store or a remove_dir_all changes the files of one
\* instance only, one that a store or purge in progress names.
C32_InstancesIndependent ==
    [][/\ \A p \in Procs, j \in Ids :
             (StepFrom(p, "acquire_try_lock") /\ pc[p].id = j) =>
                 /\ (\A g \in GuardsOf(j) : ~guards[g].linked) =>
                        pc'[p].at = "acquire_make_dir"
                 /\ (pc'[p] = Idle /\ res'.out = "AlreadyLocked") =>
                        \E g \in GuardsOf(j) : guards[g].linked
       /\ \A p \in Procs, i \in Ids, j \in Ids :
             (i # j /\ StepOn(p, i)) =>
                 /\ FilesOf(j)' = FilesOf(j)
                 /\ GuardsOf(j)' = GuardsOf(j)
                 /\ \A g \in GuardsOf(j) : guards'[g] = guards[g]
       /\ \A j \in Ids :
             (pc' = pc /\ res' = NoRes /\ FilesOf(j)' # FilesOf(j)) =>
                 /\ \E p \in Procs :
                       pc[p].id = j /\ pc[p].at \in {"store_write", "purge_remove_dir_all"}
                 /\ \A i \in Ids \ {j} : FilesOf(i)' = FilesOf(i)
                 /\ UNCHANGED guards
      ]_vars

\* C32 witness: acquire_instance for one instance has returned Ok while the
\* other process holds the other instance with a StorageHandle; both instances
\* have their own stored record, with different values.
C32_Witness ==
    /\ res.op = "acquire_instance" /\ res.out = "Ok"
    /\ \E i \in Ids \ {res.id} :
          /\ \E g \in GuardIds :
                /\ guards[g].live /\ guards[g].linked /\ guards[g].id = i
                /\ guards[g].proc # res.proc /\ guards[g].sh # {}
          /\ stored[i][stored_data] = "42"
          /\ recFile[i][stored_data] = FileOf(Serialize("42"))
    /\ stored[res.id][stored_data] = "7"
    /\ recFile[res.id][stored_data] = FileOf(Serialize("7"))

\* C35: a purge_instances whose filter answers PossiblyUnused for every name
\* and Duration::ZERO for retain_unused_for passes every instance that has a
\* directory and whose lock nobody holds to dispose, exactly once.
C35_ScanDisposesEligible ==
    [][(res'.op = "purge_instances" /\ res'.val = "PossiblyUnused") =>
          \A i \in Ids :
              (instDir[i] /\ ~FileLocked(lock_path(i))) =>
                  Cardinality({k \in 1 .. Len(res'.slug) : res'.slug[k] = i}) = 1
      ]_vars

\* The value a load of record s of instance i gives now.
Current(i, s) == Loaded(TargetLoad(load_source(i, s)))

C39_SlugBinding ==
    [][/\ (res'.op \in {"storage_handle", "raw_subdir"} /\ res'.out = "BadSlug") =>
             UNCHANGED <<fsvars, guards, stored, pc>>
       /\ \A p \in Procs, i \in Ids :
             (res'.proc = p /\ res'.id = i /\ res'.op = "storage_handle" /\ res'.out = "Ok") =>
                 /\ \E g \in Handles(p), sl \in SlugStrings :
                       /\ ValidSlug(sl) /\ sl \notin guards[g].sh
                       /\ guards[g].id = i
                       /\ guards' = [guards EXCEPT ![g].sh = @ \cup {sl}]
                       /\ StrongCount(guards'[g]) = StrongCount(guards[g]) + 1
                 /\ UNCHANGED <<fsvars, stored, pc>>
       /\ \A p \in Procs, i \in Ids :
             (res'.proc = p /\ res'.id = i /\ res'.op = "raw_subdir" /\ res'.out = "Ok") =>
                 /\ \E g \in Handles(p) :
                       /\ guards[g].id = i
                       /\ guards' = [guards EXCEPT ![g].rsd = TRUE]
                       /\ StrongCount(guards'[g]) = StrongCount(guards[g]) + 1
                 /\ ValidSlug(raw)
                 /\ rawDir' = [rawDir EXCEPT ![i] = TRUE]
                 /\ UNCHANGED <<kindDir, lockFiles, instDir, recFile, tmpFile, stored, pc>>
       /\ \A p \in Procs :
             (StepFrom(p, "store_write") /\ pc'[p].at = "store_return") =>
                 /\ guards[pc[p].g].live /\ pc[p].slug \in guards[pc[p].g].sh
                 /\ ValidSlug(pc[p].slug)
                 /\ recFile' = [recFile EXCEPT ![guards[pc[p].g].id][pc[p].slug] =
                                    FileOf(Serialize(pc[p].val))]
      ]_vars

\* C39 witness: raw_subdir was given an invalid slug by a process whose handle
\* already has a StorageHandle with a stored record: BadSlug, no subdirectory,
\* and the guard's holders are the handle and the StorageHandle only.
C39_Witness ==
    /\ res.op = "raw_subdir" /\ res.out = "BadSlug"
    /\ ~rawDir[res.id] /\ recFile[res.id][stored_data].exists
    /\ \E g \in Handles(res.proc) :
          /\ guards[g].id = res.id /\ guards[g].sh = {stored_data}
          /\ ~guards[g].rsd /\ StrongCount(guards[g]) = 2

\* C22: in a purge_instances whose filter answers PossiblyUnused and
\* Duration::ZERO, an instance whose lock another holder has is not passed to
\* dispose and is not changed, and the scan goes on: every other instance that
\* has a directory and a free lock is passed to dispose once.
C22_HeldInstanceSkipped ==
    [][(res'.op = "purge_instances" /\ res'.val = "PossiblyUnused") =>
          \A i \in Ids :
              (instDir[i] /\ FileLocked(lock_path(i))) =>
                  /\ \A k \in 1 .. Len(res'.slug) : res'.slug[k] # i
                  /\ FilesOf(i)' = FilesOf(i)
                  /\ \A g \in GuardsOf(i) : guards'[g] = guards[g]
                  /\ \A j \in Ids \ {i} :
                        (instDir[j] /\ ~FileLocked(lock_path(j))) =>
                            Cardinality({k \in 1 .. Len(res'.slug) : res'.slug[k] = j}) = 1
      ]_vars

====
